---- MODULE Spec2Model ----
(***************************************************************************)
(* trufflex.py: a wrapper that enumerates GitHub repositories and Docker   *)
(* Hub images, runs the trufflehog binary on each of them and exports the  *)
(* findings.  The program is one sequential control flow; pc is its        *)
(* position, every action is one step between two observable effects       *)
(* (network request, scanner launch, file access, process exit).           *)
(***************************************************************************)
EXTENDS Integers, Sequences, FiniteSets, TLC

\* ---------------------------------------------------------------- bounds
MaxName == 2        \* repository / organisation names are 1..MaxName
MaxPages == 2       \* pages a server holds for one listing call
MaxPageLen == 1     \* entries on one page of a listing
MaxRepos == 2       \* entries one listing call (or input file) yields in all
MaxDockerRepos == 1 \* Docker repositories of one run
MaxOrgs == 1        \* organisations the user belongs to
MaxTags == 2        \* tag records Docker Hub holds for one run
MaxDigest == 2      \* image digests are 1..MaxDigest
MaxImages == 1      \* image digests listed under one tag record
MaxProfiles == 2    \* lines of the profile list of --git-profile

\* an optional value: <<>> is Python's None, <<v>> is the value v
None == <<>>
Some(v) == <<v>>
Val(o) == o[1]
Names == 1..MaxName
Digests == 1..MaxDigest

\* ------------------------------------------------------- generic helpers
RECURSIVE Concat(_)
Concat(ss) == IF ss = <<>> THEN <<>> ELSE Head(ss) \o Concat(Tail(ss))

SeqsUpTo(S, n) == UNION {[1..k -> S] : k \in 0..n}

Map(f(_), s) == [i \in 1..Len(s) |-> f(s[i])]

\* str.lstrip(ch), str.rstrip(ch), str.strip(ch)
RECURSIVE LStrip(_, _)
LStrip(s, ch) == IF s # <<>> /\ Head(s) = ch THEN LStrip(Tail(s), ch) ELSE s
RECURSIVE RStrip(_, _)
RStrip(s, ch) ==
    IF s # <<>> /\ s[Len(s)] = ch
    THEN RStrip(SubSeq(s, 1, Len(s) - 1), ch) ELSE s
StripCh(s, ch) == LStrip(RStrip(s, ch), ch)
\* str.strip(): drop leading and trailing blanks
Strip(s) == StripCh(s, " ")

\* x in str
Contains(s, c) == \E i \in 1..Len(s) : s[i] = c

\* str.endswith(suffix)
EndsWith(s, suf) ==
    /\ Len(suf) <= Len(s)
    /\ SubSeq(s, Len(s) - Len(suf) + 1, Len(s)) = suf

\* index of the first occurrence of c in s (c occurs in s)
FirstIndex(s, c) == CHOOSE i \in 1..Len(s) :
                        s[i] = c /\ \A j \in 1..(i - 1) : s[j] # c

\* line.split(":", 1)
SplitFirstColon(s) ==
    LET i == FirstIndex(s, ":")
    IN  <<SubSeq(s, 1, i - 1), SubSeq(s, i + 1, Len(s))>>

\* sorted(list)
sorted(s) == SortSeq(s, LAMBDA a, b : a < b)

\* ------------------------------------------------------------ the inputs
Modes == {"git_me", "git_other", "git_profile", "docker_profile", "docker_repo"}
GitModes == {"git_me", "git_other", "git_profile"}
DockerModes == {"docker_profile", "docker_repo"}

\* first value of the docker entry of cred.conf, as a string of characters
DockerLines == { <<"u", ":", "p">>, <<"u", "p">>, <<"u", ":">>,
                 <<" ", "u", ":", "p", ":", "q">> }
\* first value of the github entry of cred.conf
GithubLines == { <<"t", "o", "k">>, <<" ">> }

\* cred.conf: missing, not YAML, an empty document, or a mapping
Confs ==
    { [kind |-> k, github |-> None, docker |-> None] :
          k \in {"missing", "badyaml", "empty"} }
    \cup
    { [kind |-> "map", github |-> g, docker |-> d] :
          g \in {Some(l) : l \in GithubLines} \cup {None},
          d \in {Some(l) : l \in DockerLines} \cup {None} }

\* the command line: the mode flag, the path of the mode's input list
\* ("none": no -f given; the Docker flags always carry a path), --all-tag,
\* and whether -o names a file (it defaults to output.xlsx; -o "" is empty)
Args ==
    { a \in [mode : Modes, file : {"none", "unreadable", "ok"},
             all_tag : BOOLEAN, output : BOOLEAN] :
        /\ a.mode \in DockerModes => a.file # "none"
        /\ a.mode = "git_me" => a.file = "none"
        /\ a.all_tag => a.mode \in DockerModes }

VARIABLES
    pc,             \* position of the control flow
    args,           \* parsed command line
    conf,           \* content of cred.conf
    hasBinary,      \* trufflehog is on the PATH
    status,         \* "running", "ok" (exit 0), "fatal" (sys.exit(1)),
                    \* "crash" (uncaught exception, exit status 1)
    cred,           \* [github_token, docker_user, docker_pass]
    call,           \* the listing call in progress or last returned
    repos,          \* repository list of the mode
    orgs,           \* organisation list (--git-me)
    profiles,       \* profile lines still to enumerate (--git-profile)
    todo,           \* scan targets not yet scanned
    all_output,     \* captured scanner outputs (GitHub modes)
    docker_findings,\* normalised Docker findings
    tags,           \* state of the get_container_tags generator, with the
                    \* repositories it was started for and the tag records
                    \* it has yielded in this run
    scans,          \* every scanner launch attempted, in order
    files,          \* content of the side-effect files written by this run
    log,            \* observable effects in order
    msgs            \* kinds of message printed

vars == <<pc, args, conf, hasBinary, status, cred, call, repos, orgs, profiles,
          todo, all_output, docker_findings, tags, scans, files, log, msgs>>

\* a file this run has not written
Unwritten == [kind |-> "unwritten", lines |-> <<>>]
FileNames == {"personal.txt", "org.txt", "results.txt", "image.txt", "xlsx"}

NoTags == [pending |-> <<>>, images |-> <<>>, more |-> FALSE, total |-> 0,
           started |-> <<>>, listed |-> <<>>]
NoCall == [fn |-> "none", resps |-> <<>>, acc |-> <<>>, state |-> "idle"]

Init ==
    /\ pc = "start"
    /\ args \in Args
    /\ conf \in Confs
    /\ hasBinary \in BOOLEAN
    /\ status = "running"
    /\ cred = [github_token |-> None, docker_user |-> None, docker_pass |-> None]
    /\ call = NoCall
    /\ repos = <<>>
    /\ orgs = <<>>
    /\ profiles = <<>>
    /\ todo = <<>>
    /\ all_output = <<>>
    /\ docker_findings = <<>>
    /\ tags = NoTags
    /\ scans = <<>>
    /\ files = [f \in FileNames |-> Unwritten]
    /\ log = <<>>
    /\ msgs = {}

\* ------------------------------------------------------ credential loader
read_credentials_no_colon_check(c) ==
    IF c.kind \in {"missing", "badyaml"}
    THEN [exit |-> "fatal", msg |-> "cred.conf"]
    ELSE IF c.kind = "empty"
    THEN [exit |-> "crash", msg |-> "TypeError"]
    ELSE LET line == IF c.docker # None THEN Some(Strip(Val(c.docker))) ELSE None
             colon == line # None /\ Contains(Val(line), ":")
         IN  [exit |-> "no",
              github_token |-> IF c.github # None
                               THEN Some(Strip(Val(c.github))) ELSE None,
              docker_user |-> IF colon THEN Some(SplitFirstColon(Val(line))[1])
                              ELSE line,
              docker_pass |-> IF colon THEN Some(SplitFirstColon(Val(line))[2])
                              ELSE None]

\* read_credentials(): the outcome for one content of cred.conf
read_credentials(c) ==
    IF c.kind \in {"missing", "badyaml"}
    THEN [exit |-> "fatal", msg |-> IF c.kind = "missing"
                                     THEN "cred.conf file not found"
                                     ELSE "Error parsing cred.conf"]
    ELSE IF c.kind = "empty"
    THEN [exit |-> "crash", msg |-> "TypeError"]   \* "github" in None
    ELSE LET tok == IF c.github # None THEN Some(Strip(Val(c.github))) ELSE None
             line == IF c.docker # None THEN Some(Strip(Val(c.docker))) ELSE None
         IN  IF line # None /\ ~Contains(Val(line), ":")
             THEN [exit |-> "fatal",
                   msg |-> "Docker credentials must be in format username:password"]
             ELSE [exit |-> "no",
                   github_token |-> tok,
                   docker_user |-> IF line = None THEN None
                                   ELSE Some(SplitFirstColon(Val(line))[1]),
                   docker_pass |-> IF line = None THEN None
                                   ELSE Some(SplitFirstColon(Val(line))[2])]

\* Python truthiness of an optional string
Truthy(s) == s # None /\ Val(s) # <<>>

Exit(st, m) ==
    /\ pc' = "exit"
    /\ status' = st
    /\ msgs' = msgs \cup m

\* main, line 312
ReadCredentials ==
    /\ pc = "start"
    /\ LET r == read_credentials(conf)
       IN  IF r.exit # "no"
           THEN /\ Exit(r.exit, {r.msg})
                /\ UNCHANGED cred
           ELSE /\ cred' = [github_token |-> r.github_token,
                            docker_user |-> r.docker_user,
                            docker_pass |-> r.docker_pass]
                /\ pc' = "mode"
                /\ UNCHANGED <<status, msgs>>
    /\ UNCHANGED <<args, conf, hasBinary, call, repos, orgs, profiles, todo,
                   all_output, docker_findings, tags, scans, files, log>>

\* ------------------------------------------------------ GitHub enumerator
\* a response to one page request: the status, the JSON array of the body
\* and whether the Link header names a next page.  A server holds at most
\* MaxPages pages and room more entries for this call.
PageResponses(seen, room) ==
    { [status |-> 404, data |-> <<>>, next |-> FALSE] }
    \cup
    { [status |-> 200, data |-> d, next |-> n] :
          d \in {x \in SeqsUpTo(Names, MaxPageLen) : Len(x) <= room},
          n \in {b \in BOOLEAN : b => seen + 1 < MaxPages} }

\* f"https://github.com/{repo['full_name']}"
RepoUrl(full_name) == <<"https://github.com/", full_name>>
\* org['login']
OrgLogin(login) == login

\* one turn of the loop `while url:` of get_user_repos / get_orgs /
\* get_profile_repos: the list so far and whether the loop goes on
PageStepDropsOnError(acc, r, items) ==
    IF r.status # 200
    THEN [acc |-> <<>>, more |-> FALSE]
    ELSE [acc |-> acc \o items, more |-> r.next]
PageStep(acc, r, items) ==
    IF r.status # 200
    THEN [acc |-> acc, more |-> FALSE]
    ELSE [acc |-> acc \o items, more |-> r.next]

\* the call in progress of function fn, or a fresh one
Open(fn) == IF call.fn = fn /\ call.state = "open"
            THEN call
            ELSE [fn |-> fn, resps |-> <<>>, acc |-> <<>>, state |-> "open"]

Fetch(fn, r, conv(_)) ==
    LET c == Open(fn)
        st == PageStep(c.acc, r, Map(conv, r.data))
    IN  [fn |-> fn, resps |-> Append(c.resps, r), acc |-> st.acc,
         state |-> IF st.more THEN "open" ELSE "returned"]

\* sorted() of a list of repository URLs
sortedUrls(s) == SortSeq(s, LAMBDA a, b : a[2] < b[2])

\* main, lines 318-322
MainGitMe ==
    /\ pc = "mode"
    /\ args.mode = "git_me"
    /\ IF ~Truthy(cred.github_token)
       THEN Exit("fatal", {"GitHub token not found in cred.conf"})
       ELSE /\ pc' = "get_user_repos"
            /\ UNCHANGED <<status, msgs>>
    /\ UNCHANGED <<args, conf, hasBinary, cred, call, repos, orgs, profiles,
                   todo, all_output, docker_findings, tags, scans, files, log>>

\* get_user_repos, one page request
GetUserReposPage ==
    /\ pc = "get_user_repos"
    /\ \E r \in PageResponses(Len(Open("get_user_repos").resps),
                                MaxRepos - Len(Open("get_user_repos").acc)) :
         LET c == Fetch("get_user_repos", r, RepoUrl)
         IN  /\ call' = c
             /\ log' = Append(log, <<"net", "get_user_repos">>)
             /\ IF c.state = "returned"
                THEN repos' = c.acc /\ pc' = "get_orgs"
                ELSE UNCHANGED <<repos, pc>>
    /\ UNCHANGED <<args, conf, hasBinary, status, cred, orgs, profiles, todo,
                   all_output, docker_findings, tags, scans, files, msgs>>

\* get_orgs, one page request
GetOrgsPage ==
    /\ pc = "get_orgs"
    /\ \E r \in PageResponses(Len(Open("get_orgs").resps),
                                MaxOrgs - Len(Open("get_orgs").acc)) :
         LET c == Fetch("get_orgs", r, OrgLogin)
         IN  /\ call' = c
             /\ log' = Append(log, <<"net", "get_orgs">>)
             /\ IF c.state = "returned"
                THEN orgs' = c.acc /\ pc' = "write_lists"
                ELSE UNCHANGED <<orgs, pc>>
    /\ UNCHANGED <<args, conf, hasBinary, status, cred, repos, profiles, todo,
                   all_output, docker_findings, tags, scans, files, msgs>>

\* the trufflehog github command lines of scan_my_repos_and_orgs
OrgCmd(org, token) == [sub |-> "github", flag |-> "--org", target |-> Some(org),
                       url |-> None, token |-> token]
RepoCmd(repo, token) == [sub |-> "github", flag |-> "--repo", target |-> None,
                         url |-> Some(repo), token |-> token]

\* what open(name, 'w') followed by f.write leaves in the file
Lines(ls) == [kind |-> "lines", lines |-> ls]
Placeholder(text) == [kind |-> "text", lines |-> <<text>>]

personal_txt_unsorted(rs) == IF rs # <<>> THEN Lines(rs)
                             ELSE Placeholder("No personal repositories found.")
personal_txt(rs) == IF rs # <<>> THEN Lines(sortedUrls(rs))
                    ELSE Placeholder("No personal repositories found.")
org_txt(os) == IF os # <<>> THEN Lines(sorted(os))
               ELSE Placeholder("No organizations found.")

\* the scan order of scan_my_repos_and_orgs: organisations, then repositories
my_targets(os, rs, token) ==
    Map(LAMBDA o : OrgCmd(o, token), os) \o Map(LAMBDA r : RepoCmd(r, token), rs)

\* scan_my_repos_and_orgs, lines 111-121
WriteLists ==
    /\ pc = "write_lists"
    /\ files' = [files EXCEPT !["personal.txt"] = personal_txt(repos),
                              !["org.txt"] = org_txt(orgs)]
    /\ log' = log \o << <<"write", "personal.txt">>, <<"write", "org.txt">> >>
    /\ todo' = my_targets(orgs, repos, cred.github_token)
    /\ pc' = "scan_git"
    /\ UNCHANGED <<args, conf, hasBinary, status, cred, call, repos, orgs,
                   profiles, all_output, docker_findings, tags, scans, msgs>>


\* ------------------------------------------------------------ scan invoker
\* what the scanner prints, split at the newlines: "" is an empty line,
\* "junk" a diagnostic that is not JSON, "obj" a JSON object (with --json
\* trufflehog prints every finding as one JSON object on a line of its own)
Outputs == { <<"junk", "">>, <<"obj", "">>, <<"junk", "obj">> }

\* run_trufflehog(cmd): FileNotFoundError ends the process, the captured
\* text is returned, any other exception of subprocess.run propagates
\* what subprocess.run does once the binary is found: it returns the text
\* the scanner printed, or raises (PermissionError, OSError, a decoding error)
Outcomes == { [raise |-> FALSE, out |-> o] : o \in Outputs }
            \cup { [raise |-> TRUE, out |-> <<>>] }

run_trufflehog(present, outcome) ==
    IF ~present THEN [exit |-> "fatal", out |-> <<>>]
    ELSE IF outcome.raise THEN [exit |-> "crash", out |-> <<>>]
    ELSE [exit |-> "no", out |-> outcome.out]

\* one turn of the scan loops of scan_my_repos_and_orgs / scan_other_repos /
\* scan_profile_repos; after the last turn all_output is returned to main
ScanGit ==
    /\ pc = "scan_git"
    /\ todo # <<>>
    /\ \E outcome \in Outcomes :
         LET r == run_trufflehog(hasBinary, outcome)
         IN  /\ scans' = Append(scans, [cmd |-> Head(todo), out |-> r.out,
                                        result |-> IF ~hasBinary
                                                   THEN "FileNotFoundError"
                                                   ELSE IF outcome.raise
                                                   THEN "raise" ELSE "returned"])
             /\ log' = Append(log, <<"scan", "github">>)
             /\ IF r.exit = "fatal"
                THEN /\ Exit("fatal", {"trufflehog not found"})
                     /\ UNCHANGED <<todo, all_output>>
                ELSE IF r.exit = "crash"
                THEN /\ Exit("crash", {"Traceback"})
                     /\ UNCHANGED <<todo, all_output>>
                ELSE /\ all_output' = Append(all_output, r.out)
                     /\ todo' = Tail(todo)
                     /\ UNCHANGED <<pc, status, msgs>>
    /\ UNCHANGED <<args, conf, hasBinary, cred, call, repos, orgs, profiles,
                   docker_findings, tags, files>>

\* [line.strip() for line in f if line.strip()]: 0 stands for a blank line
NonBlank(ls, blank) == SelectSeq(ls, LAMBDA l : l # blank)

\* main, lines 323-327, and scan_other_repos, lines 133-135
MainGitOther ==
    /\ pc = "mode"
    /\ args.mode = "git_other"
    /\ IF args.file = "none"
       THEN /\ Exit("fatal", {"--git-other requires -f"})
            /\ UNCHANGED <<repos, todo>>
       ELSE IF args.file = "unreadable"
       THEN /\ Exit("crash", {"Traceback"})
            /\ UNCHANGED <<repos, todo>>
       ELSE \E ls \in SeqsUpTo(Names \cup {0}, MaxRepos) :
              /\ repos' = NonBlank(ls, 0)
              /\ todo' = Map(LAMBDA r : RepoCmd(r, None), NonBlank(ls, 0))
              /\ pc' = "scan_git"
              /\ UNCHANGED <<status, msgs>>
    /\ UNCHANGED <<args, conf, hasBinary, cred, call, orgs, profiles,
                   all_output, docker_findings, tags, scans, files, log>>

\* lines of the profile list: the path part of a profile URL, None for a
\* blank line
ProfilePaths == { <<"/", "a">>, <<"/", "a", "/">>, <<"/">> }

\* urlparse(profile_url).path.strip("/")
profile_username(path) == StripCh(path, "/")

\* main, lines 328-332, and scan_profile_repos, lines 143-145
MainGitProfile ==
    /\ pc = "mode"
    /\ args.mode = "git_profile"
    /\ IF args.file = "none"
       THEN /\ Exit("fatal", {"--git-profile requires -f"})
            /\ UNCHANGED profiles
       ELSE IF args.file = "unreadable"
       THEN /\ Exit("crash", {"Traceback"})
            /\ UNCHANGED profiles
       ELSE \E ls \in SeqsUpTo({Some(u) : u \in ProfilePaths} \cup {None},
                               MaxProfiles) :
              /\ profiles' = NonBlank(ls, None)
              /\ pc' = "get_profile_repos"
              /\ UNCHANGED <<status, msgs>>
    /\ UNCHANGED <<args, conf, hasBinary, cred, call, repos, orgs, todo,
                   all_output, docker_findings, tags, scans, files, log>>

\* get_profile_repos for the first profile left: the username check, or one
\* page request; scan_profile_repos, lines 146-149, when the call returns
GetProfileReposPage ==
    /\ pc = "get_profile_repos"
    /\ profiles # <<>>
    /\ IF profile_username(Val(Head(profiles))) = <<>>
       THEN /\ call' = [fn |-> "get_profile_repos", resps |-> <<>>,
                        acc |-> <<>>, state |-> "returned"]
            /\ msgs' = msgs \cup {"Invalid profile URL"}
            /\ profiles' = Tail(profiles)
            /\ UNCHANGED <<repos, log>>
       ELSE \E r \in PageResponses(
                       Len(Open("get_profile_repos").resps),
                       MaxRepos - Len(repos) - Len(Open("get_profile_repos").acc)) :
              LET c == Fetch("get_profile_repos", r, RepoUrl)
              IN  /\ call' = c
                  /\ log' = Append(log, <<"net", "get_profile_repos">>)
                  /\ msgs' = IF r.status # 200
                             THEN msgs \cup {"Failed to fetch repos"} ELSE msgs
                  /\ IF c.state = "returned"
                     THEN /\ repos' = repos \o c.acc
                          /\ profiles' = Tail(profiles)
                     ELSE UNCHANGED <<repos, profiles>>
    /\ UNCHANGED <<pc, args, conf, hasBinary, status, cred, orgs, todo,
                   all_output, docker_findings, tags, scans, files>>

\* scan_profile_repos, lines 150-151: every profile is enumerated
ProfilesDone ==
    /\ pc = "get_profile_repos"
    /\ profiles = <<>>
    /\ todo' = Map(LAMBDA r : RepoCmd(r, None), repos)
    /\ pc' = "scan_git"
    /\ UNCHANGED <<args, conf, hasBinary, status, cred, call, repos, orgs,
                   profiles, all_output, docker_findings, tags, scans, files,
                   log, msgs>>

JoinLinesLastOnly(outs) == outs[Len(outs)]

\* "\n".join(all_output), as the lines of the file
JoinLines(outs) == Concat(outs)

\* main, lines 334-337: results.txt is written when all_output is not empty
WriteResults ==
    /\ pc = "scan_git"
    /\ todo = <<>>
    /\ IF all_output = <<>>
       THEN /\ Exit("ok", {})
            /\ UNCHANGED <<files, log>>
       ELSE /\ files' = [files EXCEPT !["results.txt"] = Lines(JoinLines(all_output))]
            /\ log' = Append(log, <<"write", "results.txt">>)
            /\ IF args.output
               THEN pc' = "export_git" /\ UNCHANGED <<status, msgs>>
               ELSE Exit("ok", {})
    /\ UNCHANGED <<args, conf, hasBinary, cred, call, repos, orgs, profiles,
                   todo, all_output, docker_findings, tags, scans>>

\* ---------------------------------------------------------------- exporter
\* json.loads(line) succeeds
IsJson(l) == l = "obj"

\* save_to_excel_github(results_file, output_file): the rows are the lines of
\* the file that parse as JSON; blank lines and other lines are skipped
save_to_excel_github(ls) ==
    LET rows == SelectSeq(ls, IsJson)
    IN  IF rows # <<>>
        THEN [write |-> TRUE, rows |-> rows, msg |-> "Parsed GitHub results saved"]
        ELSE [write |-> FALSE, rows |-> rows,
              msg |-> "No valid GitHub JSON found, Excel not created."]

\* main, line 338, and the end of main
SaveToExcelGithub ==
    /\ pc = "export_git"
    /\ LET r == save_to_excel_github(files["results.txt"].lines)
       IN  /\ Exit("ok", {r.msg})
           /\ IF r.write
              THEN /\ files' = [files EXCEPT !["xlsx"] = Lines(r.rows)]
                   /\ log' = log \o << <<"read", "results.txt">>,
                                       <<"write", "xlsx">> >>
              ELSE /\ log' = Append(log, <<"read", "results.txt">>)
                   /\ UNCHANGED files
    /\ UNCHANGED <<args, conf, hasBinary, cred, call, repos, orgs, profiles,
                   todo, all_output, docker_findings, tags, scans>>


\* -------------------------------------------------------- Docker enumerator
\* main, lines 341-344: the credential check of the Docker modes
MainDocker ==
    /\ pc = "mode"
    /\ args.mode \in DockerModes
    /\ IF ~Truthy(cred.docker_user) \/ ~Truthy(cred.docker_pass)
       THEN Exit("fatal", {"Docker credentials not found in cred.conf"})
       ELSE pc' = "login" /\ UNCHANGED <<status, msgs>>
    /\ UNCHANGED <<args, conf, hasBinary, cred, call, repos, orgs, profiles,
                   todo, all_output, docker_findings, tags, scans, files, log>>

\* get_docker_token: the login request; a status other than 200 is fatal
get_docker_token(st) == IF st # 200 THEN "fatal" ELSE "no"

\* main, line 345
GetDockerToken ==
    /\ pc = "login"
    /\ \E st \in {200, 401} :
         /\ log' = Append(log, <<"net", "login">>)
         /\ IF get_docker_token(st) = "fatal"
            THEN Exit("fatal", {"Login failed"})
            ELSE pc' = "docker_input" /\ UNCHANGED <<status, msgs>>
    /\ UNCHANGED <<args, conf, hasBinary, cred, call, repos, orgs, profiles,
                   todo, all_output, docker_findings, tags, scans, files>>

\* content of the file of --docker-profile: a profile URL or a bare username
DockerProfileUrls == { <<"h", "/u/", "a", "/">>, <<" ", "a">> }

\* url.rstrip("/").split("/u/")[-1]: what follows the last "/u/"
RECURSIVE AfterLast(_, _)
AfterLast(s, sep) ==
    IF Contains(s, sep)
    THEN AfterLast(SubSeq(s, FirstIndex(s, sep) + 1, Len(s)), sep)
    ELSE s

get_username_from_url(url) ==
    IF Contains(url, "/u/") THEN AfterLast(RStrip(url, "/"), "/u/")
    ELSE Strip(url)

\* f"{username}/{r}", and a line owner/name of the file of --docker-repo
FullRepo(username, r) == <<username, "/", r>>
Owner == <<"a">>

\* main, lines 346-354: the input of the mode is opened after the login
ReadDockerInput ==
    /\ pc = "docker_input"
    /\ IF args.file = "unreadable"
       THEN /\ Exit("crash", {"Traceback"})
            /\ UNCHANGED <<repos, profiles>>
       ELSE IF args.mode = "docker_profile"
       THEN \E url \in DockerProfileUrls :
              /\ profiles' = <<get_username_from_url(Strip(url))>>
              /\ pc' = "list_repositories"
              /\ UNCHANGED <<repos, status, msgs>>
       ELSE \E ls \in SeqsUpTo(Names \cup {0}, MaxDockerRepos) :
              /\ repos' = Map(LAMBDA n : FullRepo(Owner, n), NonBlank(ls, 0))
              /\ pc' = "image_txt"
              /\ UNCHANGED <<profiles, status, msgs>>
    /\ UNCHANGED <<args, conf, hasBinary, cred, call, orgs, todo, all_output,
                   docker_findings, tags, scans, files, log>>

\* one turn of the loop of list_repositories: a status other than 200 ends
\* the process, otherwise the names of the page are appended
list_repositories_step(acc, r) ==
    IF r.status # 200
    THEN [acc |-> acc, state |-> "fatal"]
    ELSE [acc |-> acc \o r.data,
          state |-> IF r.next THEN "open" ELSE "returned"]

\* list_repositories, one page request; main, lines 350-351, on return
ListRepositoriesPage ==
    /\ pc = "list_repositories"
    /\ \E r \in PageResponses(Len(Open("list_repositories").resps),
                                MaxDockerRepos - Len(Open("list_repositories").acc)) :
         LET c == Open("list_repositories")
             st == list_repositories_step(c.acc, r)
         IN  /\ call' = [fn |-> "list_repositories", resps |-> Append(c.resps, r),
                         acc |-> st.acc, state |-> st.state]
             /\ log' = Append(log, <<"net", "list_repositories">>)
             /\ IF st.state = "fatal"
                THEN /\ Exit("fatal", {"Error fetching repositories"})
                     /\ UNCHANGED repos
                ELSE IF st.state = "returned"
                THEN /\ repos' = Map(LAMBDA n : FullRepo(Head(profiles), n), st.acc)
                     /\ pc' = "image_txt"
                     /\ UNCHANGED <<status, msgs>>
                ELSE UNCHANGED <<repos, pc, status, msgs>>
    /\ UNCHANGED <<args, conf, hasBinary, cred, orgs, profiles, todo,
                   all_output, docker_findings, tags, scans, files>>

\* main, lines 356-359
WriteImageTxt ==
    /\ pc = "image_txt"
    /\ files' = [files EXCEPT !["image.txt"] = Lines(repos)]
    /\ log' = Append(log, <<"write", "image.txt">>)
    /\ msgs' = msgs \cup {"Saved repositories to image.txt"}
    /\ todo' = repos
    /\ pc' = "scan_docker"
    /\ UNCHANGED <<args, conf, hasBinary, status, cred, call, repos, orgs,
                   profiles, all_output, docker_findings, tags, scans>>

\* tag names, as strings of characters
TagNames == { <<"v", "1">>, <<"v", ".", "s", "i", "g">>, <<".", "e", "n", "c">> }

\* one tag record of a tag page: its name and the digests of its images
TagRecords == [name : TagNames, images : SeqsUpTo(Digests, MaxImages)]

\* a response to one tag page request.  The body of a 200 is a page; the body
\* of any other status is an error object (no results, no next) or not JSON
TagResponses(seen, room) ==
    { [status |-> 404, json |-> TRUE, results |-> <<>>, next |-> FALSE],
      [status |-> 502, json |-> FALSE, results |-> <<>>, next |-> FALSE] }
    \cup
    { [status |-> 200, json |-> TRUE, results |-> d, next |-> n] :
          d \in {x \in SeqsUpTo(TagRecords, MaxPageLen) : Len(x) <= room},
          n \in {b \in BOOLEAN : b => seen + 1 < MaxPages} }

\* skip_tag(tag_name)
deny_list == { <<".", "s", "i", "g">>, <<".", "e", "n", "c">> }
skip_tag_sig_only(tag_name) == EndsWith(tag_name, <<".", "s", "i", "g">>)
skip_tag(tag_name) == \E t \in deny_list : EndsWith(tag_name, t)

\* the image references handed to the scanner
ImageDigestLatest(full_repo, digest) ==
    [repo |-> full_repo, by |-> ":latest", ref |-> 0]
ImageDigest(full_repo, digest) == [repo |-> full_repo, by |-> "@", ref |-> digest]
ImageLatest(full_repo) == [repo |-> full_repo, by |-> ":latest", ref |-> 0]
DockerCmd(image) == [sub |-> "docker", image |-> image]

\* scan_with_trufflehog(image): the JSON lines of stdout; every exception,
\* the missing binary included, is printed and gives no finding
scan_with_trufflehog(present, outcome) ==
    IF ~present \/ outcome.raise
    THEN [findings |-> <<>>, caught |-> TRUE]
    ELSE [findings |-> SelectSeq(outcome.out, IsJson), caught |-> FALSE]

\* parse_docker_finding(image, finding) for a finding without metadata
parse_docker_finding(image, finding) ==
    [image |-> image, tag |-> "", layer |-> "", file |-> "",
     verified |-> FALSE, rotation_guide |-> "", version |-> ""]

\* one scanner launch of a Docker mode and what main does with its findings
DockerScan(image, full_repo, outcome) ==
    LET r == scan_with_trufflehog(hasBinary, outcome)
    IN  /\ scans' = Append(scans, [cmd |-> DockerCmd(image),
                                   out |-> IF r.caught THEN <<>> ELSE outcome.out,
                                   result |-> IF ~hasBinary
                                              THEN "FileNotFoundError"
                                              ELSE IF outcome.raise
                                              THEN "raise" ELSE "returned"])
        /\ log' = Append(log, <<"scan", "docker">>)
        /\ docker_findings' =
               docker_findings
               \o Map(LAMBDA f : parse_docker_finding(full_repo, f), r.findings)
        /\ msgs' = IF r.caught THEN msgs \cup {"Error scanning"} ELSE msgs

\* main, lines 375-379: without --all-tag the :latest image is scanned
ScanLatest ==
    /\ pc = "scan_docker"
    /\ todo # <<>>
    /\ ~args.all_tag
    /\ \E outcome \in Outcomes :
         DockerScan(ImageLatest(Head(todo)), Head(todo), outcome)
    /\ todo' = Tail(todo)
    /\ UNCHANGED <<pc, status, args, conf, hasBinary, cred, call, repos, orgs, profiles,
                   all_output, tags, files>>

\* get_container_tags(name), lines 204-205: one page request
FetchTagPage ==
    /\ args.all_tag
    /\ \/ pc = "scan_docker" /\ todo # <<>>
       \/ pc = "tags" /\ tags.pending = <<>> /\ tags.images = <<>> /\ tags.more
    /\ LET c == IF pc = "tags" THEN call
                ELSE [fn |-> "get_container_tags", resps |-> <<>>,
                      acc |-> <<>>, state |-> "open"]
       IN  \E r \in TagResponses(Len(c.resps), MaxTags - tags.total) :
             /\ log' = Append(log, <<"net", "get_container_tags">>)
             /\ IF ~r.json
                THEN /\ call' = [c EXCEPT !.resps = Append(@, r), !.state = "raised"]
                     /\ Exit("crash", {"Traceback"})
                     /\ tags' = [tags EXCEPT !.started =
                                    IF pc = "tags" THEN @
                                    ELSE Append(@, Head(todo))]
                ELSE /\ call' = [c EXCEPT !.resps = Append(@, r)]
                     /\ tags' = [pending |-> r.results, images |-> <<>>,
                                 more |-> r.next,
                                 total |-> tags.total + Len(r.results),
                                 started |-> IF pc = "tags" THEN tags.started
                                             ELSE Append(tags.started, Head(todo)),
                                 listed |-> tags.listed]
                     /\ pc' = "tags"
                     /\ UNCHANGED <<status, msgs>>
    /\ UNCHANGED <<args, conf, hasBinary, cred, repos, orgs, profiles, todo,
                   all_output, docker_findings, scans, files>>

\* get_container_tags, lines 206-207, and main, lines 364-368: the next tag
\* record is yielded; a denylisted tag is passed over
TakeTag ==
    /\ pc = "tags"
    /\ tags.images = <<>>
    /\ tags.pending # <<>>
    /\ LET tag == Head(tags.pending)
       IN  /\ call' = [call EXCEPT !.acc = Append(@, tag)]
           /\ tags' = [tags EXCEPT !.pending = Tail(@),
                                   !.images = IF skip_tag(tag.name) THEN <<>>
                                              ELSE tag.images,
                                   !.listed = Append(@, [repo |-> Head(todo),
                                                         tag |-> tag])]
    /\ UNCHANGED <<pc, args, conf, hasBinary, status, cred, repos, orgs,
                   profiles, todo, all_output, docker_findings, scans, files,
                   log, msgs>>

\* main, lines 368-374: the next image of the tag is scanned by its digest
ScanImage ==
    /\ pc = "tags"
    /\ tags.images # <<>>
    /\ \E outcome \in Outcomes :
         DockerScan(ImageDigest(Head(todo), Head(tags.images)), Head(todo), outcome)
    /\ tags' = [tags EXCEPT !.images = Tail(@)]
    /\ UNCHANGED <<pc, status, args, conf, hasBinary, cred, call, repos, orgs, profiles,
                   todo, all_output, files>>

\* get_container_tags, lines 208-210: no next page, the generator is
\* exhausted and main goes on with the next repository
TagsDone ==
    /\ pc = "tags"
    /\ tags.images = <<>>
    /\ tags.pending = <<>>
    /\ ~tags.more
    /\ call' = [call EXCEPT !.state = "returned"]
    /\ todo' = Tail(todo)
    /\ pc' = "scan_docker"
    /\ UNCHANGED <<args, conf, hasBinary, status, cred, repos, orgs, profiles,
                   all_output, docker_findings, tags, scans, files, log, msgs>>

save_to_excel_docker_always(findings) ==
    [write |-> TRUE, msg |-> "Parsed Docker results saved"]

\* save_to_excel_docker(findings, output_file)
save_to_excel_docker(findings) ==
    IF findings # <<>>
    THEN [write |-> TRUE, msg |-> "Parsed Docker results saved"]
    ELSE [write |-> FALSE, msg |-> "No Docker findings, Excel not created."]

\* main, lines 381-382, and the end of main
SaveToExcelDocker ==
    /\ pc = "scan_docker"
    /\ todo = <<>>
    /\ IF args.output
       THEN LET r == save_to_excel_docker(docker_findings)
            IN  /\ Exit("ok", {r.msg})
                /\ IF r.write
                   THEN /\ files' = [files EXCEPT !["xlsx"] = Lines(docker_findings)]
                        /\ log' = Append(log, <<"write", "xlsx">>)
                   ELSE UNCHANGED <<files, log>>
       ELSE /\ Exit("ok", {})
            /\ UNCHANGED <<files, log>>
    /\ UNCHANGED <<args, conf, hasBinary, cred, call, repos, orgs, profiles,
                   todo, all_output, docker_findings, tags, scans>>

Next ==
    \/ ReadCredentials
    \/ MainGitMe \/ GetUserReposPage \/ GetOrgsPage \/ WriteLists
    \/ MainGitOther
    \/ MainGitProfile \/ GetProfileReposPage \/ ProfilesDone
    \/ ScanGit \/ WriteResults \/ SaveToExcelGithub
    \/ MainDocker \/ GetDockerToken \/ ReadDockerInput
    \/ ListRepositoriesPage \/ WriteImageTxt
    \/ ScanLatest \/ FetchTagPage \/ TakeTag \/ ScanImage \/ TagsDone
    \/ SaveToExcelDocker

Spec == Init /\ [][Next]_vars
\* ================================================================ claims
Range(q) == {q[i] : i \in 1..Len(q)}
Count(q, e) == Cardinality({i \in 1..Len(q) : q[i] = e})
IsPrefix(a, b) == Len(a) <= Len(b) /\ SubSeq(b, 1, Len(a)) = a
Written(f) == files[f] # Unwritten
Cmds == [i \in 1..Len(scans) |-> scans[i].cmd]
GithubFns == {"get_user_repos", "get_orgs", "get_profile_repos"}

\* the entries of one response as the call returns them
Returned(fn, r) ==
    IF fn = "get_container_tags" THEN r.results
    ELSE IF fn \in {"get_user_repos", "get_profile_repos"}
    THEN [i \in 1..Len(r.data) |-> <<"https://github.com/", r.data[i]>>]
    ELSE r.data

\* the entries of the pages that precede the first response that is not a 200
RECURSIVE PartialResult(_, _)
PartialResult(fn, resps) ==
    IF resps = <<>> \/ Head(resps).status # 200 THEN <<>>
    ELSE Returned(fn, Head(resps)) \o PartialResult(fn, Tail(resps))

AllOk(resps) == \A i \in 1..Len(resps) : resps[i].status = 200
JustRequested == log # <<>> /\ log[Len(log)] = <<"net", call.fn>>

C2_MissingBinaryIsFatal ==
    \A i \in 1..Len(scans) :
        scans[i].result = "FileNotFoundError" =>
            /\ i = Len(scans)
            /\ pc = "exit"
            /\ status \in {"fatal", "crash"}

\* a denylisted tag name, written out: the last four characters
EndsInSigOrEnc(name) ==
    /\ Len(name) >= 4
    /\ <<name[Len(name) - 3], name[Len(name) - 2], name[Len(name) - 1],
         name[Len(name)]>> \in { <<".", "s", "i", "g">>, <<".", "e", "n", "c">> }

\* C3: every image the scanner is launched on by digest was listed, for that
\* repository, under a tag whose name ends neither in .sig nor in .enc; and
\* without --all-tag no image is scanned by digest at all.
C3_NoDeniedTagScanned ==
    \A i \in 1..Len(scans) :
        (scans[i].cmd.sub = "docker" /\ scans[i].cmd.image.by = "@") =>
            /\ args.all_tag
            /\ \E j \in 1..Len(tags.listed) :
                 /\ tags.listed[j].repo = scans[i].cmd.image.repo
                 /\ ~EndsInSigOrEnc(tags.listed[j].tag.name)
                 /\ scans[i].cmd.image.ref \in Range(tags.listed[j].tag.images)

\* C3 witness: a tag ending in .enc and a tag that is not denylisted were
\* listed with different digests, and the scanner has been launched.
C3_Witness ==
    /\ scans # <<>>
    /\ \E j, k \in 1..Len(tags.listed) :
         /\ tags.listed[j].tag.name = <<".", "e", "n", "c">>
         /\ tags.listed[j].tag.images # <<>>
         /\ ~EndsInSigOrEnc(tags.listed[k].tag.name)
         /\ tags.listed[k].tag.images # <<>>
         /\ tags.listed[k].tag.images # tags.listed[j].tag.images
    /\ pc = "exit"

NoEffect == /\ log = <<>>
            /\ scans = <<>>
            /\ \A f \in FileNames : ~Written(f)

\* C4: when cred.conf parses and the first value of its docker entry holds no
\* colon, the run has made no network request, launched no scan and written
\* no file, and once the loader has run the process has ended with a fatal
\* error, in each of the five modes.
C4_NoColonFatalBeforeEffects ==
    (conf.kind = "map" /\ conf.docker # None /\ ~Contains(Val(conf.docker), ":")) =>
        /\ NoEffect
        /\ pc # "start" => (pc = "exit" /\ status = "fatal")

\* C4 witness: a --git-me run with a token ended at the docker entry "up".
C4_Witness ==
    /\ conf.kind = "map"
    /\ conf.docker = Some(<<"u", "p">>)
    /\ conf.github = Some(<<"t", "o", "k">>)
    /\ args.mode = "git_me"
    /\ pc = "exit"
    /\ status = "fatal"
\* ls holds the entries of rs in ascending order of key
SortedPerm(ls, rs, key(_)) ==
    /\ Len(ls) = Len(rs)
    /\ \A i \in 1..(Len(ls) - 1) : key(ls[i]) <= key(ls[i + 1])
    /\ \A e \in Range(rs) \cup Range(ls) : Count(ls, e) = Count(rs, e)

ListFileHolds(f, src, text, key(_)) ==
    IF src = <<>>
    THEN files[f] = [kind |-> "text", lines |-> <<text>>]
    ELSE files[f].kind = "lines" /\ SortedPerm(files[f].lines, src, key)

MyListsHold ==
    /\ ListFileHolds("personal.txt", repos, "No personal repositories found.",
                     LAMBDA u : u[2])
    /\ ListFileHolds("org.txt", orgs, "No organizations found.", LAMBDA o : o)

\* once with --org for each organisation, then once with --repo for each
\* repository, each with the token
ExpectedMyCmds ==
    [i \in 1..(Len(orgs) + Len(repos)) |->
        IF i <= Len(orgs)
        THEN [sub |-> "github", flag |-> "--org", target |-> Some(orgs[i]),
              url |-> None, token |-> cred.github_token]
        ELSE [sub |-> "github", flag |-> "--repo", target |-> None,
              url |-> Some(repos[i - Len(orgs)]), token |-> cred.github_token]]

RECURSIVE ExpectedDigestScans(_)
ExpectedDigestScans(listed) ==
    IF listed = <<>> THEN <<>>
    ELSE LET e == Head(listed)
         IN  (IF EndsInSigOrEnc(e.tag.name) THEN <<>>
              ELSE [i \in 1..Len(e.tag.images) |->
                      [repo |-> e.repo, by |-> "@", ref |-> e.tag.images[i]]])
             \o ExpectedDigestScans(Tail(listed))

DockerImages == [i \in 1..Len(scans) |-> scans[i].cmd.image]
PendingImages == [i \in 1..Len(tags.images) |->
                    [repo |-> Head(todo), by |-> "@", ref |-> tags.images[i]]]

C7_ExceptionIsSoftFailure ==
    (scans # <<>> /\ scans[Len(scans)].result = "raise"
     /\ log[Len(log)][1] = "scan") =>
        /\ status \in {"running", "ok"}
        /\ "Error scanning" \in msgs

\* the credential loader returns
LoaderReturns ==
    /\ conf.kind = "map"
    /\ conf.docker # None => Contains(Val(conf.docker), ":")

\* a required input of the selected mode is unmet
Unmet ==
    \/ args.mode = "git_me" /\ ~Truthy(cred.github_token)
    \/ args.mode \in {"git_other", "git_profile"} /\ args.file # "ok"
    \/ args.mode \in DockerModes
       /\ (~Truthy(cred.docker_user) \/ ~Truthy(cred.docker_pass)
           \/ args.file # "ok")

\* C8 (as claimed): when a required input of the selected mode is unmet, the
\* run makes no network request, launches no scan and writes no file, and
\* when the process has ended it has ended with a non-zero status.
C8_UnmetInputStopsBeforeEffects ==
    (pc # "start" /\ LoaderReturns /\ Unmet) =>
        /\ NoEffect
        /\ pc = "exit" => status \in {"fatal", "crash"}

NoJsonLine(ls) == "obj" \notin Range(ls)

\* the export was called on an empty record list: a Docker-mode run that came
\* to its end with no finding printed by any scan, or a GitHub-mode run whose
\* results.txt holds no JSON line
ExportedEmpty ==
    /\ pc = "exit"
    /\ args.output
    /\ \/ /\ args.mode \in DockerModes
          /\ status = "ok"
          /\ \A i \in 1..Len(scans) : NoJsonLine(scans[i].out)
       \/ /\ args.mode \in GitModes
          /\ Written("results.txt")
          /\ NoJsonLine(files["results.txt"].lines)

\* C9: when the export is called on an empty record list, the spreadsheet
\* file is not written, the run ends normally and the diagnostic is printed.
C9_EmptyExportWritesNothing ==
    ExportedEmpty =>
        /\ status = "ok"
        /\ ~Written("xlsx")
        /\ Count(log, <<"write", "xlsx">>) = 0
        /\ IF args.mode \in DockerModes
           THEN "No Docker findings, Excel not created." \in msgs
           ELSE "No valid GitHub JSON found, Excel not created." \in msgs

\* C9 witness: a Docker-mode run scanned an image, no finding was printed,
\* and the run came to its end with -o set.
C9_Witness ==
    /\ args.mode \in DockerModes
    /\ args.output
    /\ pc = "exit"
    /\ status = "ok"
    /\ scans # <<>>
    /\ scans[1].result = "returned"
    /\ \A i \in 1..Len(scans) : NoJsonLine(scans[i].out)

WriteResultsAt == {i \in 1..Len(log) : log[i] = <<"write", "results.txt">>}
ReadResultsAt == {i \in 1..Len(log) : log[i] = <<"read", "results.txt">>}
ScanAt == {i \in 1..Len(log) : log[i][1] = "scan"}
DockerEffects == { <<"net", "login">>, <<"net", "list_repositories">>,
                   <<"net", "get_container_tags">>, <<"write", "image.txt">>,
                   <<"scan", "docker">> }

\* C10 (as claimed): a GitHub-mode run that passed its checks and ended
\* normally has written results.txt exactly once.
C10_ResultsWrittenExactlyOnce ==
    (args.mode \in GitModes /\ pc = "exit" /\ status = "ok") =>
        Cardinality(WriteResultsAt) = 1

\* C10 (amended): a GitHub-mode run writes results.txt at most once, and a
\* run that ends normally writes it exactly when at least one target was
\* scanned; the write comes after the last scanner launch has returned and
\* holds the captured outputs of all targets in scan order; the export reads
\* results.txt only after that write; the run makes no Docker login, no
\* Docker listing request, no image.txt write and no Docker scan.
C10_ResultsWrittenOnceAfterScans ==
    args.mode \in GitModes =>
        /\ Cardinality(WriteResultsAt) <= 1
        /\ (pc = "exit" /\ status = "ok") =>
              (Cardinality(WriteResultsAt) = 1 <=> scans # <<>>)
        /\ \A w \in WriteResultsAt :
              /\ \A k \in ScanAt : k < w
              /\ \A i \in 1..Len(scans) : scans[i].result = "returned"
              /\ todo = <<>>
              /\ files["results.txt"] =
                    [kind |-> "lines",
                     lines |-> Concat([i \in 1..Len(scans) |-> scans[i].out])]
        /\ \A r \in ReadResultsAt : \E w \in WriteResultsAt : w < r
        /\ \A i \in 1..Len(log) : log[i] \notin DockerEffects
        /\ \A i \in 1..Len(scans) : scans[i].cmd.sub = "github"

\* C10 witness: two targets with different outputs were scanned, results.txt
\* was written and the export has read it.
C10_Witness ==
    /\ args.mode \in GitModes
    /\ pc = "exit"
    /\ status = "ok"
    /\ Len(scans) = 2
    /\ scans[1].out # scans[2].out
    /\ WriteResultsAt # {}
    /\ ReadResultsAt # {}
====
